---- MODULE Spec2Model ----
(***************************************************************************)
(* Model of get_probs.py and get_probs_deepseek.py: the module-level       *)
(* client construction, translate_and_get_probs, and the __main__ block.   *)
(* The two scripts are the two values of `config`.                         *)
(*                                                                         *)
(* Python values are modelled as records so that None and a proper value   *)
(* are comparable: NoneV is None, Some(v) a value that is not None.        *)
(* A float is FZero (0.0), or a positive number FPos(l) given by its        *)
(* natural logarithm l in thousandths (so 1.0 is FPos(0), and products     *)
(* add logarithms), with float64's underflow of exp and of products.       *)
(***************************************************************************)
EXTENDS Integers, Sequences, FiniteSets, TLC

VARIABLES
    config,              \* which script: "openai" (get_probs.py) or "deepseek"
    api_key,             \* os.environ.get(<credential variable>): NoneV or Some("sk")
    mode,                \* "script" (__name__ == "__main__") or "import"
    pc,                  \* "load", "ready", "main", "loop", "done", "crashed"
    client,              \* module global: "unbound", "None" or "OpenAI"
    stdout,              \* lines printed so far
    requests,            \* invocations of client.chat.completions.create
    calls,               \* invocations of translate_and_get_probs
    request,             \* the arguments of the last create() invocation
    resp,                \* the outcome of the last create() invocation
    ret,                 \* what the last translate_and_get_probs call returned
    fault,               \* exception that left the last call, "none" if none
    total_prob_product,  \* __main__: the running product
    idx,                 \* __main__: position of the for loop
    exit,                \* "running", "normal" or "traceback"
    log                  \* history of the calls made (SpecCalls only)

vars == <<config, api_key, mode, pc, client, stdout, requests, calls, request,
          resp, ret, fault, total_prob_product, idx, exit, log>>

-----------------------------------------------------------------------------
(* Bounds of the model *)

MaxTokens == 2
MaxCalls == 2

-----------------------------------------------------------------------------
(* Python values *)

NoneV == [isNone |-> TRUE]
Some(v) == [isNone |-> FALSE, v |-> v]

Configs == {"openai", "deepseek"}

\* math.exp on float64 returns 0.0 below about -745.1332 (exp(-745.133) is
\* 5e-324, exp(-745.134) is 0.0); the unit is a thousandth.
ExpUnderflow == -745134

FZero == [k |-> "zero"]
FPos(l) == [k |-> "pos", ln |-> l]
FUnset == [k |-> "unset"]

\* a <= b on floats
FLeq(a, b) ==
    \/ a.k = "zero"
    \/ a.k = "pos" /\ b.k = "pos" /\ a.ln <= b.ln

\* the mutant of FMul: a division in place of the product
FDiv(a, b) ==
    IF a.k = "zero" \/ b.k = "zero" THEN FZero
    ELSE FPos(a.ln - b.ln)

\* a * b on float64: 0.0 absorbs, and a product too small underflows to 0.0
FMul(a, b) ==
    IF a.k = "zero" \/ b.k = "zero" THEN FZero
    ELSE IF a.ln + b.ln < ExpUnderflow THEN FZero
    ELSE FPos(a.ln + b.ln)

\* the mutant of MathExp: the sign of the argument lost
MathExpNeg(x) ==
    IF x.isNone THEN [exc |-> "TypeError"]
    ELSE [exc |-> "none", v |-> FPos(0 - x.v)]

\* math.exp(x): a TypeError for None, float64 otherwise
MathExp(x) ==
    IF x.isNone THEN [exc |-> "TypeError"]
    ELSE IF x.v < ExpUnderflow THEN [exc |-> "none", v |-> FZero]
    ELSE [exc |-> "none", v |-> FPos(x.v)]

\* str.strip() on a string given as a sequence of characters
RECURSIVE LStrip(_)
LStrip(s) ==
    IF s = <<>> THEN <<>>
    ELSE IF Head(s) = " " THEN LStrip(Tail(s))
    ELSE s

RECURSIVE RStrip(_)
RStrip(s) ==
    IF s = <<>> THEN <<>>
    ELSE IF s[Len(s)] = " " THEN RStrip(SubSeq(s, 1, Len(s) - 1))
    ELSE s

Strip(s) == RStrip(LStrip(s))

-----------------------------------------------------------------------------
(* The inputs: the environment, the arguments and what the service answers *)

ApiKeys == {NoneV, Some("sk")}

Texts == {"The cat sat on the mat."}
LanguagePairs == {[target |-> "French", source |-> "English"],
                  [target |-> "Quechua", source |-> "English"]}

Tokens == {"Bon", "jour"}
\* log-probabilities in thousandths: -0.1, and the service's -9999.0 for a
\* token outside the most likely ones
LogProbs == {-100, -9999000}
\* entries with their log-probability, and one that lacks it
Items ==
    {[token |-> "Bon", logprob |-> Some(l)] : l \in LogProbs}
    \cup {[token |-> "jour", logprob |-> Some(-100)],
          [token |-> "jour", logprob |-> NoneV]}

SeqsUpTo(S, n) == UNION {[1..k -> S] : k \in 0..n}

Contents == {Some(<<" ", "a", " ", "b", " ">>)}
LogprobsValues ==
    {NoneV, Some([content |-> NoneV])}
    \cup {Some([content |-> Some(s)]) : s \in SeqsUpTo(Items, MaxTokens)}
\* a choice with its message content and any log-probability data, or one
\* whose message content is missing
Choices ==
    [content : Contents, logprobs : LogprobsValues]
    \cup [content : {NoneV},
          logprobs : {NoneV, Some([content |-> Some(<<>>)])}]

TransportErrors == {"APIConnectionError", "APIStatusError"}
Responses ==
    {[kind |-> "raise", err |-> e] : e \in TransportErrors}
    \cup {[kind |-> "ok", choices |-> <<>>]}
    \cup {[kind |-> "ok", choices |-> <<c>>] : c \in Choices}

NoResponse == [kind |-> "none"]
NoRequest == [model |-> "none"]
NoReturn == [kind |-> "none"]
ReturnNone == [kind |-> "None"]

-----------------------------------------------------------------------------
(* Construction of the client *)

\* Exception classes OpenAI(...) may raise for an api_key of None. The
\* library is not part of the repository: the class is a choice.
CtorErrors == {"TypeError", "OpenAIError"}

\* the class named by the except clause around the construction
LoadExceptClause == "TypeError"

\* the class named by the except clause of translate_and_get_probs
ExceptClauseNarrow == "APIConnectionError"

ExceptClause == "Exception"

\* every class of the model derives from Exception
Catches(clause, e) == clause = "Exception" \/ clause = e

KeyNotFoundMsg(cfg) ==
    IF cfg = "openai"
    THEN "OpenAI API key not found. Please set the OPENAI_API_KEY environment variable."
    ELSE "DeepSeek API key not found. Please set the DEEPSEEK_API_KEY environment variable."

Line(m, a) == [msg |-> m, arg |-> a]

-----------------------------------------------------------------------------
(* translate_and_get_probs *)

NotInitMsg(cfg) ==
    IF cfg = "openai"
    THEN "OpenAI client is not initialized. Cannot make API call."
    ELSE "DeepSeek client is not initialized. Cannot make API call."

ErrorMsg == "An error occurred during the API call: "

\* `not client`
ClientIsFalsy(c) == c = "None"

\* the mutant of DisabledReturn: an empty result in place of None
DisabledReturnEmpty ==
    [kind |-> "dict", translation_text |-> <<>>, token_probabilities |-> <<>>]

\* what the guard on the client returns
DisabledReturn == ReturnNone

\* the keyword arguments of client.chat.completions.create; the temperature
\* is in tenths
Request(cfg, text, pair) ==
    IF cfg = "openai"
    THEN [model |-> "gpt-3.5-turbo",
          system |-> <<"You are a professional translator.">>,
          user |-> <<"Translate the following ", pair.source, " text to ",
                     pair.target, ": ", text>>,
          temperature |-> 0, max_tokens |-> 256, top_p |-> 10,
          logprobs |-> TRUE]
    ELSE [model |-> "deepseek-chat",
          system |-> <<"You are an expert translator. ... from ", pair.source,
                       " to ", pair.target>>,
          user |-> <<text>>,
          temperature |-> 15, max_tokens |-> 256, top_p |-> 10,
          logprobs |-> TRUE]

\* the mutant of token_probabilities: each entry put in front of the list
RECURSIVE token_probabilities_reversed(_)
token_probabilities_reversed(content) ==
    IF content = <<>> THEN [exc |-> "none", v |-> <<>>]
    ELSE LET item == Head(content)
             p == MathExp(item.logprob)
         IN  IF p.exc # "none" THEN [exc |-> p.exc]
             ELSE LET rest == token_probabilities_reversed(Tail(content))
                  IN  IF rest.exc # "none" THEN [exc |-> rest.exc]
                      ELSE [exc |-> "none",
                            v |-> rest.v \o <<[token |-> item.token,
                                               probability |-> p.v]>>]

\* the mutant of token_probabilities: an entry that cannot be converted is
\* left out
RECURSIVE token_probabilities_skipping(_)
token_probabilities_skipping(content) ==
    IF content = <<>> THEN [exc |-> "none", v |-> <<>>]
    ELSE LET item == Head(content)
             p == MathExp(item.logprob)
             rest == token_probabilities_skipping(Tail(content))
         IN  IF p.exc # "none" THEN rest
             ELSE [exc |-> "none",
                   v |-> <<[token |-> item.token, probability |-> p.v]>>
                         \o rest.v]

\* the list comprehension over logprobs_content, in order; the first entry
\* whose conversion raises ends it with that exception
RECURSIVE token_probabilities(_)
token_probabilities(content) ==
    IF content = <<>> THEN [exc |-> "none", v |-> <<>>]
    ELSE LET item == Head(content)
             p == MathExp(item.logprob)
         IN  IF p.exc # "none" THEN [exc |-> p.exc]
             ELSE LET rest == token_probabilities(Tail(content))
                  IN  IF rest.exc # "none" THEN [exc |-> rest.exc]
                      ELSE [exc |-> "none",
                            v |-> <<[token |-> item.token,
                                     probability |-> p.v]>> \o rest.v]

\* the mutant of translated_text: the content as it came
translated_text_untrimmed(content) == content

\* choice.message.content.strip()
translated_text(content) == Strip(content)

\* the body of the try block once create() has answered r: the exception it
\* raises, or the dictionary it returns
TryBody(r) ==
    IF r.kind = "raise" THEN [exc |-> r.err]
    ELSE IF Len(r.choices) = 0 THEN [exc |-> "IndexError"]
    ELSE LET choice == r.choices[1]
         IN  IF choice.content.isNone THEN [exc |-> "AttributeError"]
             ELSE IF choice.logprobs.isNone THEN [exc |-> "AttributeError"]
             ELSE IF choice.logprobs.v.content.isNone THEN [exc |-> "TypeError"]
             ELSE LET tp == token_probabilities(choice.logprobs.v.content.v)
                  IN  IF tp.exc # "none" THEN [exc |-> tp.exc]
                      ELSE [exc |-> "none",
                            value |-> [kind |-> "dict",
                                       translation_text |->
                                           translated_text(choice.content.v),
                                       token_probabilities |-> tp.v]]

\* the mutant of RequestsIssued: a failed request sent once more
RequestsWithRetry(b) == IF b.exc = "none" THEN 1 ELSE 2

\* create() is invoked once, before anything of the answer is looked at
RequestsIssued(b) == 1

\* the mutant of ClientAfter: the client dropped after a failed call
ClientDroppedOnFailure(c, e) == IF e.ret.kind = "None" THEN "None" ELSE c

\* the function assigns to no global: the client after a call with effect e
ClientAfter(c, e) == c

\* the effect of one call: what it returns, prints and sends
translate_and_get_probs(c, cfg, text, pair, r) ==
    IF ClientIsFalsy(c)
    THEN [ret |-> DisabledReturn, out |-> <<Line(NotInitMsg(cfg), "")>>,
          reqs |-> 0, request |-> NoRequest, resp |-> NoResponse,
          fault |-> "none"]
    ELSE LET b == TryBody(r)
             sent == [reqs |-> RequestsIssued(b),
                      request |-> Request(cfg, text, pair), resp |-> r]
         IN  IF b.exc = "none"
             THEN [ret |-> b.value, out |-> <<>>, fault |-> "none"] @@ sent
             ELSE IF Catches(ExceptClause, b.exc)
             THEN [ret |-> ReturnNone, out |-> <<Line(ErrorMsg, b.exc)>>,
                   fault |-> "none"] @@ sent
             ELSE [ret |-> NoReturn, out |-> <<>>, fault |-> b.exc] @@ sent

-----------------------------------------------------------------------------
(* The state machine *)

Init ==
    /\ config \in Configs
    /\ api_key \in ApiKeys
    /\ mode \in {"script", "import"}
    /\ pc = "load"
    /\ client = "unbound"
    /\ stdout = <<>>
    /\ requests = 0
    /\ calls = 0
    /\ request = NoRequest
    /\ resp = NoResponse
    /\ ret = NoReturn
    /\ fault = "none"
    /\ total_prob_product = FUnset
    /\ idx = 0
    /\ exit = "running"
    /\ log = <<>>

\* OpenAI(api_key=...): the exception it raises, "none" if it returns
OpenAI(key, e) == IF key.isNone THEN e ELSE "none"

\* The module's top level up to the __main__ test: the client is built, a
\* TypeError is turned into client = None, any other exception ends the
\* program with a traceback and leaves the module unloaded.
LoadModule ==
    /\ pc = "load"
    /\ \E e \in CtorErrors :
         LET raised == OpenAI(api_key, e)
         IN  IF raised = "none"
             THEN /\ client' = "OpenAI"
                  /\ stdout' = stdout
                  /\ pc' = IF mode = "script" THEN "main" ELSE "ready"
                  /\ exit' = exit
             ELSE IF Catches(LoadExceptClause, raised)
             THEN /\ client' = "None"
                  /\ stdout' = Append(stdout, Line(KeyNotFoundMsg(config), ""))
                  /\ pc' = IF mode = "script" THEN "main" ELSE "ready"
                  /\ exit' = exit
             ELSE /\ client' = client
                  /\ stdout' = stdout
                  /\ pc' = "crashed"
                  /\ exit' = "traceback"
    /\ UNCHANGED <<config, api_key, mode, requests, calls, request, resp, ret,
                   fault, total_prob_product, idx, log>>

\* what one call of translate_and_get_probs does to the state
Apply(e) ==
    /\ calls' = calls + 1
    /\ requests' = requests + e.reqs
    /\ request' = e.request
    /\ resp' = e.resp
    /\ ret' = e.ret
    /\ fault' = e.fault
    /\ client' = ClientAfter(client, e)

\* A caller that imported the module calls the function.
Call ==
    /\ pc = "ready"
    /\ calls < MaxCalls
    /\ \E text \in Texts, pair \in LanguagePairs, r \in Responses :
         LET e == translate_and_get_probs(client, config, text, pair, r)
         IN  /\ Apply(e)
             /\ stdout' = stdout \o e.out
    /\ UNCHANGED <<config, api_key, mode, pc, total_prob_product, idx, exit,
                   log>>

DemoText(cfg) ==
    IF cfg = "openai" THEN "The cat sat on the mat."
    ELSE "What is your name, sir?"

DemoPair(cfg) ==
    IF cfg = "openai" THEN [target |-> "French", source |-> "English"]
    ELSE [target |-> "Quechua", source |-> "English"]

Banner(cfg) ==
    IF cfg = "openai" THEN <<>>
    ELSE <<Line("DeepSeek API Example: Translation with Token Probabilities", "")>>

CannotRunMsg(cfg) ==
    IF cfg = "openai"
    THEN "Cannot run example because OpenAI client is not initialized."
    ELSE "Cannot run example because DeepSeek client is not initialized."

\* `if translation_result:`
Truthy(v) == v.kind = "dict"

\* The __main__ block up to the for loop.
Main ==
    /\ pc = "main"
    /\ IF ClientIsFalsy(client)
       THEN /\ stdout' = stdout \o Banner(config)
                         \o <<Line(CannotRunMsg(config), "")>>
            /\ pc' = "done"
            /\ exit' = "normal"
            /\ UNCHANGED <<client, requests, calls, request, resp, ret, fault,
                           total_prob_product, idx>>
       ELSE \E r \in Responses :
              LET e == translate_and_get_probs(client, config, DemoText(config),
                                               DemoPair(config), r)
                  before == stdout \o Banner(config)
                            \o <<Line("Original English Text:", DemoText(config))>>
              IN  /\ Apply(e)
                  /\ IF e.fault # "none"
                     THEN /\ stdout' = before \o e.out
                          /\ pc' = "crashed"
                          /\ exit' = "traceback"
                          /\ UNCHANGED <<total_prob_product, idx>>
                     ELSE IF Truthy(e.ret)
                     THEN /\ stdout' = before \o e.out
                                \o <<Line("Translated Text:", e.ret.translation_text),
                                     Line("--- Token Probabilities ---", "")>>
                          /\ total_prob_product' = FPos(0)
                          /\ idx' = 1
                          /\ pc' = "loop"
                          /\ exit' = exit
                     ELSE /\ stdout' = before \o e.out
                          /\ pc' = "done"
                          /\ exit' = "normal"
                          /\ UNCHANGED <<total_prob_product, idx>>
    /\ UNCHANGED <<config, api_key, mode, log>>

\* One iteration of the for loop over translation_result['token_probabilities'].
LoopStep ==
    /\ pc = "loop"
    /\ idx <= Len(ret.token_probabilities)
    /\ LET item == ret.token_probabilities[idx]
       IN  /\ total_prob_product' = FMul(total_prob_product, item.probability)
           /\ stdout' = Append(stdout, Line(item.token, item.probability))
    /\ idx' = idx + 1
    /\ UNCHANGED <<config, api_key, mode, pc, client, requests, calls, request,
                   resp, ret, fault, exit, log>>

\* The loop is exhausted: the overall probability is printed and the program
\* ends.
LoopEnd ==
    /\ pc = "loop"
    /\ idx > Len(ret.token_probabilities)
    /\ stdout' = Append(stdout, Line("Overall sequence probability: ",
                                     total_prob_product))
    /\ pc' = "done"
    /\ exit' = "normal"
    /\ UNCHANGED <<config, api_key, mode, client, requests, calls, request,
                   resp, ret, fault, total_prob_product, idx, log>>

Next == LoadModule \/ Call \/ Main \/ LoopStep \/ LoopEnd

Spec == Init /\ [][Next]_vars

-----------------------------------------------------------------------------
(* Sequences of calls with their history kept *)

GoodChoice ==
    [content |-> Some(<<" ", "a", " ", "b", " ">>),
     logprobs |-> Some([content |-> Some(
         <<[token |-> "Bon", logprob |-> Some(-100)],
           [token |-> "Bon", logprob |-> Some(-9999000)]>>)])]

BadChoice ==
    [content |-> Some(<<" ", "a", " ", "b", " ">>),
     logprobs |-> Some([content |-> Some(
         <<[token |-> "Bon", logprob |-> Some(-100)],
           [token |-> "jour", logprob |-> NoneV]>>)])]

ProbeResponses ==
    {[kind |-> "raise", err |-> "APIStatusError"],
     [kind |-> "ok", choices |-> <<>>],
     [kind |-> "ok", choices |-> <<GoodChoice>>],
     [kind |-> "ok", choices |-> <<BadChoice>>]}

InitCalls == Init /\ mode = "import"

\* Call, with the call appended to the history.
CallLogged ==
    /\ pc = "ready"
    /\ calls < MaxCalls
    /\ \E text \in Texts, pair \in LanguagePairs, r \in ProbeResponses :
         LET e == translate_and_get_probs(client, config, text, pair, r)
         IN  /\ Apply(e)
             /\ stdout' = stdout \o e.out
             /\ log' = Append(log, [client |-> client,
                                    text |-> text, pair |-> pair,
                                    resp |-> e.resp, ret |-> e.ret,
                                    fault |-> e.fault,
                                    after |-> ClientAfter(client, e)])
    /\ UNCHANGED <<config, api_key, mode, pc, total_prob_product, idx, exit>>

NextCalls == LoadModule \/ CallLogged

SpecCalls == InitCalls /\ [][NextCalls]_vars

-----------------------------------------------------------------------------
(* Properties *)

\* the log-probability entries of an answer that has them
EntriesOf(r) == r.choices[1].logprobs.v.content.v

\* the answer makes the call fail: the transport raised or the remote
\* returned an error status, there is no choice, the message content is
\* missing, or log-probability data is missing
Failing(r) ==
    \/ r.kind = "raise"
    \/ /\ r.kind = "ok"
       /\ \/ r.choices = <<>>
          \/ r.choices[1].content.isNone
          \/ r.choices[1].logprobs.isNone
          \/ r.choices[1].logprobs.v.content.isNone
          \/ \E i \in DOMAIN EntriesOf(r) : EntriesOf(r)[i].logprob.isNone

Spaces(n) == [i \in 1..n |-> " "]

\* t is s without its leading and trailing blanks
IsTrimOf(t, s) ==
    /\ t # <<>> => Head(t) # " " /\ t[Len(t)] # " "
    /\ \E i, j \in 0..Len(s) : s = Spaces(i) \o t \o Spaces(j)

\* C1: with the client disabled (client is None), every call of
\* translate_and_get_probs returns None and no request is ever issued to the
\* chat-completion service, in either configuration and however many calls
\* were made.
C1_DisabledNoRequest ==
    client = "None" =>
        /\ requests = 0
        /\ calls > 0 => ret = ReturnNone /\ fault = "none"

C1_Witness ==
    /\ client = "None"
    /\ calls >= 2
    /\ config = "deepseek"
    /\ ret = ReturnNone

\* C2: with an enabled client, a call whose request fails (transport raises,
\* error status, no choices, content missing, log-probability data missing)
\* prints the error diagnostic, returns None and lets no exception out.
C2_FailureYieldsNone ==
    client = "OpenAI" /\ calls > 0 /\ Failing(resp) =>
        /\ ret = ReturnNone
        /\ fault = "none"
        /\ stdout # <<>>
        /\ stdout[Len(stdout)].msg = ErrorMsg

C2_Witness ==
    /\ client = "OpenAI"
    /\ resp.kind = "ok"
    /\ resp.choices # <<>>
    /\ resp.choices[1].content.isNone
    /\ ret = ReturnNone
    /\ stdout[Len(stdout)] = Line(ErrorMsg, "AttributeError")

\* C3: with an enabled client the number of requests issued equals the
\* number of calls made: one request per call, whether it failed or not.
C3_OneRequestPerCall ==
    client = "OpenAI" => requests = calls

C3_Witness ==
    /\ client = "OpenAI"
    /\ calls = 2
    /\ requests = 2
    /\ stdout # <<>>
    /\ stdout[1].msg = ErrorMsg
    /\ ret.kind = "dict"

\* C4: a returned result has one token entry per log-probability entry of
\* the answer, and entry i carries the token of the answer's entry i.
C4_TokensInOrder ==
    ret.kind = "dict" /\ resp.kind = "ok" =>
        /\ Len(ret.token_probabilities) = Len(EntriesOf(resp))
        /\ \A i \in DOMAIN EntriesOf(resp) :
             ret.token_probabilities[i].token = EntriesOf(resp)[i].token

C4_Witness ==
    /\ ret.kind = "dict"
    /\ Len(ret.token_probabilities) = 2
    /\ ret.token_probabilities[1].token = "Bon"
    /\ ret.token_probabilities[2].token = "Bon"
    /\ ret.token_probabilities[1].probability
         # ret.token_probabilities[2].probability

\* C5 as stated: every returned probability is exp(log_probability) and lies
\* in (0, 1].
C5_Original ==
    ret.kind = "dict" /\ resp.kind = "ok" =>
        \A i \in DOMAIN ret.token_probabilities :
            LET p == ret.token_probabilities[i].probability
            IN  /\ p.k = "pos"
                /\ p.ln = EntriesOf(resp)[i].logprob.v
                /\ p.ln <= 0

\* C5 (amended): every returned probability is the float64 value of
\* exp(log_probability): e^l when l is not below the underflow point of exp,
\* 0.0 when it is; for a log-probability <= 0 it lies in [0, 1].
C5_ExpInClosedUnitInterval ==
    ret.kind = "dict" /\ resp.kind = "ok" =>
        \A i \in DOMAIN ret.token_probabilities :
            LET p == ret.token_probabilities[i].probability
                l == EntriesOf(resp)[i].logprob.v
            IN  /\ l >= ExpUnderflow => p = FPos(l)
                /\ l < ExpUnderflow => p = FZero
                /\ l <= 0 => FLeq(p, FPos(0))

C5_Witness ==
    /\ ret.kind = "dict"
    /\ Len(ret.token_probabilities) = 2
    /\ ret.token_probabilities[1].probability = FPos(-100)
    /\ ret.token_probabilities[2].probability = FZero

\* C6: a call returns None or a complete result: the content trimmed, and a
\* token entry for every log-probability entry of the answer. An answer whose
\* k-th entry cannot be converted gives None.
C6_NoPartialResult ==
    calls > 0 /\ fault = "none" =>
        \/ ret = ReturnNone
        \/ /\ ret.kind = "dict"
           /\ resp.kind = "ok"
           /\ ~Failing(resp)
           /\ IsTrimOf(ret.translation_text, resp.choices[1].content.v)
           /\ Len(ret.token_probabilities) = Len(EntriesOf(resp))
           /\ \A i \in DOMAIN ret.token_probabilities :
                ret.token_probabilities[i].probability.k \in {"zero", "pos"}

C6_Witness ==
    /\ resp.kind = "ok"
    /\ resp.choices # <<>>
    /\ ~resp.choices[1].content.isNone
    /\ ~resp.choices[1].logprobs.isNone
    /\ ~resp.choices[1].logprobs.v.content.isNone
    /\ Len(EntriesOf(resp)) = 2
    /\ ~EntriesOf(resp)[1].logprob.isNone
    /\ EntriesOf(resp)[2].logprob.isNone
    /\ ret = ReturnNone

\* C7 as stated: once the module is loaded with the credential variable
\* unset, the client is None and the diagnostic was printed.
C7_MissingKeyDisables ==
    api_key.isNone /\ pc # "load" =>
        /\ client = "None"
        /\ stdout # <<>>
        /\ stdout[1] = Line(KeyNotFoundMsg(config), "")
        /\ exit # "traceback"

\* C8: in the __main__ block the product starts at 1.0, no step of the loop
\* makes it larger, and for an empty token list the value reported is 1.0.
C8_ProductNonIncreasing ==
    [][/\ pc = "main" /\ pc' = "loop" => total_prob_product' = FPos(0)
       /\ pc = "loop" /\ idx' = idx + 1 =>
            FLeq(total_prob_product', total_prob_product)
       /\ pc = "loop" /\ pc' = "done" /\ ret.token_probabilities = <<>> =>
            stdout'[Len(stdout')]
                = Line("Overall sequence probability: ", FPos(0))]_vars

C8_Witness ==
    /\ pc = "loop"
    /\ idx = 3
    /\ total_prob_product = FPos(-200)

\* C9 as stated: a run as a program ends normally, after exactly one call of
\* translate_and_get_probs if the client is enabled, and after the
\* diagnostic, no call and no request if it never was.
C9_DemoRunsOnce ==
    mode = "script" /\ pc \in {"done", "crashed"} =>
        /\ exit = "normal"
        /\ client = "OpenAI" => calls = 1
        /\ client # "OpenAI" =>
             /\ calls = 0
             /\ requests = 0
             /\ stdout # <<>>
             /\ stdout[Len(stdout)] = Line(CannotRunMsg(config), "")

====
